---- MODULE Spec2Model ----
(***************************************************************************)
(* A model of five parts of the editor:                                    *)
(*   - the persistent byte tree        (src/src/chunk_tree.rs)             *)
(*   - the overlapping chunk iterator  (src/src/chunked_search.rs)         *)
(*   - the chunk cache                 (src/src/memstore.rs)               *)
(*   - the suggestions popup scrolling (src/src/ui/suggestions.rs)         *)
(*   - the warning log layer           (src/src/services/warning_log.rs)   *)
(* Each part has its own specification (SpecTree, SpecChunks, SpecMem);    *)
(* the variables of the other parts stay at their initial values.          *)
(***************************************************************************)
EXTENDS Integers, Sequences, FiniteSets, TLC

VARIABLES
    \* ---- chunk_tree.rs
    roots,      \* every root produced so far, oldest first (each an Arc<ChunkTree>)
    contents,   \* history: collect_bytes() and len() of each root when it was produced
    last,       \* the last tree operation called and its outcome
    \* ---- chunked_search.rs (OverlappingChunks and the ByteIterator it owns)
    source,             \* the bytes of the virtual buffer the cursor walks
    iter,               \* ByteIterator: absolute position of the next byte it yields
    buffer,
    buffer_start_pos,
    current_read_pos,
    end,
    chunk_size,
    overlap,
    first_chunk,
    start,      \* history: the start argument of OverlappingChunks::new
    windows,    \* history: every ChunkInfo yielded so far, in order
    returned,   \* history: "Some" / "None" for every call of next(), in order
    \* ---- memstore.rs (Memstore<MockLoadStore>)
    chunks,     \* Memstore.chunks : ChunkIndex -> Chunk (a partial map)
    store,      \* MockLoadStore.data : offset -> bytes (a partial map)
    loads,      \* history: every load(offset, size) call, in order
    stores,     \* history: the store(offset, data) calls of the last store_all, in order
    got,        \* the last Memstore operation and what it returned
    ops,        \* history: the number of Memstore operations so far
    \* ---- ui/suggestions.rs (SuggestionsRenderer::render)
    prompt,     \* what render reads: suggestions.len(), selected_suggestion, inner height
    scroll,     \* the outcome of render: start_idx and end_idx, or a panic
    \* ---- services/warning_log.rs (WarningLogLayer)
    handling,   \* per thread: the event its on_event call is handling, and where it is
    log,        \* history: events received, write attempts and send calls, in order
    receiver,   \* TRUE while the WarningLogHandle's receiver exists
    channel     \* the number of () queued in the mpsc channel

treeVars  == <<roots, contents, last>>
chunkVars == <<source, iter, buffer, buffer_start_pos, current_read_pos, end,
               chunk_size, overlap, first_chunk, start, windows, returned>>
memVars   == <<chunks, store, loads, stores, got, ops>>
uiVars    == <<prompt, scroll>>
logVars   == <<handling, log, receiver, channel>>
vars      == <<treeVars, chunkVars, memVars, uiVars, logVars>>

Min(a, b) == IF a < b THEN a ELSE b
Max(a, b) == IF a > b THEN a ELSE b

\* data[..n] and data[n..] of a Rust slice (n <= len checked by the caller)
Take(s, n) == SubSeq(s, 1, n)
Drop(s, n) == SubSeq(s, n + 1, Len(s))

(***************************************************************************)
(*                       chunk_tree.rs : ChunkTree<N>                      *)
(***************************************************************************)

\* The chunk width the tests instantiate: ChunkTree::<2>
N == 2

\* Bounds of the tree model
MaxInit  == 3    \* longest slice handed to from_slice for the first root
MaxData  == 3    \* longest slice handed to insert
MaxEdits == 2    \* insert/remove calls that return a tree

Leaf(data) == [kind |-> "Leaf", data |-> data]
Internal(left, mid, right, size) ==
    [kind |-> "Internal", left |-> left, mid |-> mid, right |-> right, size |-> size]
\* a call that does not return: panic!, a failed assert!, a slice index out of range
Panic == [kind |-> "Panic"]
\* a call that never returns: a recursion that calls itself with the arguments
\* it was called with grows the stack until the process is aborted
Overflow == [kind |-> "Overflow"]
\* a value that is a tree
is_tree(t) == t.kind \in {"Leaf", "Internal"}

Range(s, e) == [start |-> s, end |-> e]
\* Range<usize>::is_empty and ExactSizeIterator::len
range_is_empty(r) == r.start >= r.end
range_len(r) == IF r.start >= r.end THEN 0 ELSE r.end - r.start

\* from_slice that keeps a slice one byte longer than the width in one leaf
RECURSIVE from_slice_wide_leaf(_, _)
from_slice_wide_leaf(n, data) ==
    IF Len(data) <= n + 1
    THEN Leaf(data)
    ELSE LET mid_index == Len(data) \div 2
         IN  Internal(from_slice_wide_leaf(n, Take(data, mid_index)),
                      Leaf(<<>>),
                      from_slice_wide_leaf(n, Drop(data, mid_index)),
                      Len(data))

\* from_slice that keeps a slice it cannot halve in one leaf
RECURSIVE from_slice_leaf_at_one(_, _)
from_slice_leaf_at_one(n, data) ==
    IF Len(data) <= n \/ Len(data) \div 2 = 0
    THEN Leaf(data)
    ELSE LET mid_index == Len(data) \div 2
         IN  Internal(from_slice_leaf_at_one(n, Take(data, mid_index)),
                      Leaf(<<>>),
                      from_slice_leaf_at_one(n, Drop(data, mid_index)),
                      Len(data))

\* ChunkTree::<n>::from_slice(data): the width is a const generic of the type.
\* When mid_index is 0 the right half &data[0..] is data itself: the call for
\* the right child is the call being evaluated, and the recursion never ends.
RECURSIVE from_slice_n(_, _)
from_slice_n(n, data) ==
    IF Len(data) <= n
    THEN Leaf(data)
    ELSE LET mid_index == Len(data) \div 2
         IN  IF mid_index = 0
             THEN Overflow
             ELSE LET left == from_slice_n(n, Take(data, mid_index))
                      right == from_slice_n(n, Drop(data, mid_index))
                  IN  IF left = Overflow \/ right = Overflow
                      THEN Overflow
                      ELSE Internal(left, Leaf(<<>>), right, Len(data))

\* ChunkTree::<n>::new(): assert!(N > 0), then from_slice(&[])
new_n(n) == IF n > 0 THEN from_slice_n(n, <<>>) ELSE Panic

from_slice(data) == from_slice_n(N, data)

new == new_n(N)

len(t) == IF t.kind = "Leaf" THEN Len(t.data) ELSE t.size

is_empty(t) == IF t.kind = "Leaf" THEN t.data = <<>> ELSE t.size = 0

RECURSIVE collect_bytes(_)
collect_bytes(t) ==
    IF t.kind = "Leaf"
    THEN t.data
    ELSE collect_bytes(t.left) \o collect_bytes(t.mid) \o collect_bytes(t.right)

\* insert on a Leaf with the inserted run placed after the right part
insert_leaf_data_last(leaf_data, index, data) ==
    IF index > Len(leaf_data)
    THEN Panic
    ELSE Internal(from_slice(Take(leaf_data, index)),
                  from_slice(Drop(leaf_data, index)),
                  from_slice(data),
                  Len(leaf_data) + Len(data))

\* insert on a Leaf that keeps the inserted run in one leaf
insert_leaf_unsplit(leaf_data, index, data) ==
    IF index > Len(leaf_data)
    THEN Panic
    ELSE Internal(from_slice(Take(leaf_data, index)),
                  Leaf(data),
                  from_slice(Drop(leaf_data, index)),
                  Len(leaf_data) + Len(data))

\* insert on a Leaf that clamps the index to the leaf instead of failing
insert_leaf_clamped(leaf_data, index, data) ==
    Internal(from_slice(Take(leaf_data, Min(index, Len(leaf_data)))),
             from_slice(data),
             from_slice(Drop(leaf_data, Min(index, Len(leaf_data)))),
             Len(leaf_data) + Len(data))

\* insert on a Leaf: &leaf_data[..index] is out of range when index > len
insert_leaf(leaf_data, index, data) ==
    IF index > Len(leaf_data)
    THEN Panic
    ELSE Internal(from_slice(Take(leaf_data, index)),
                  from_slice(data),
                  from_slice(Drop(leaf_data, index)),
                  Len(leaf_data) + Len(data))

\* which child of an Internal node insert descends into
insert_child(t, index) ==
    IF index <= len(t.left) THEN "left"
    ELSE IF index <= len(t.left) + len(t.mid) THEN "mid"
    ELSE IF index <= len(t.left) + len(t.mid) + len(t.right) THEN "right"
    ELSE "panic"

RECURSIVE insert(_, _, _)
insert(t, index, data) ==
    IF t.kind = "Leaf"
    THEN insert_leaf(t.data, index, data)
    ELSE LET left_size == len(t.left)
             child == insert_child(t, index)
         IN  CASE child = "left" ->
                    LET new_left == insert(t.left, index, data)
                    IN  IF new_left = Panic THEN Panic
                        ELSE Internal(new_left, t.mid, t.right,
                                      len(new_left) + len(t.mid) + len(t.right))
               [] child = "mid" ->
                    LET new_mid == insert(t.mid, index - left_size, data)
                    IN  IF new_mid = Panic THEN Panic
                        ELSE Internal(t.left, new_mid, t.right,
                                      left_size + len(new_mid) + len(t.right))
               [] child = "right" ->
                    LET new_right == insert(t.right, index - left_size - len(t.mid), data)
                    IN  IF new_right = Panic THEN Panic
                        ELSE Internal(t.left, t.mid, new_right,
                                      left_size + len(t.mid) + len(new_right))
               [] OTHER -> Panic

\* usize::saturating_sub
saturating_sub(a, b) == IF a >= b THEN a - b ELSE 0

\* a shift that moves only the start of the range
range_shift_left_start_only(range, amount) ==
    Range(saturating_sub(range.start, amount), range.end)

range_shift_left(range, amount) ==
    Range(saturating_sub(range.start, amount), saturating_sub(range.end, amount))

range_cap(range, max) == Range(Min(range.start, max), Min(range.end, max))

\* a bounds check that lets a range starting at len() through
remove_rejects_past_end_only(t, range) == range.start > len(t) \/ range.end > len(t)

\* the bounds check at the head of remove
remove_rejects(t, range) == range.start >= len(t) \/ range.end > len(t)

\* remove on a Leaf (the bounds check has passed: start < len, end <= len)
remove_leaf(data, range) ==
    Internal(from_slice(Take(data, range.start)),
             from_slice(<<>>),
             from_slice(Drop(data, range.end)),
             Len(data) - range_len(range))

\* a guard that also skips a child whose part of the range is empty
recurses_into_nonempty(child, shifted) ==
    /\ shifted.start < len(child)
    /\ ~range_is_empty(range_cap(shifted, len(child)))

\* the guard of each recursive call of remove on an Internal node:
\*   if range.start < left.len() / mid_range.start < mid.len() / right_range.start < right.len()
recurses_into(child, shifted) == shifted.start < len(child)

RECURSIVE remove(_, _)
remove(t, range) ==
    IF len(t) = 0 /\ range_is_empty(range) THEN Leaf(<<>>)
    ELSE IF remove_rejects(t, range) THEN Panic
    ELSE IF t.kind = "Leaf" THEN remove_leaf(t.data, range)
    ELSE IF range.start > t.size THEN Internal(t.left, t.mid, t.right, t.size)
    ELSE
      LET new_left == IF recurses_into(t.left, range)
                      THEN remove(t.left, range_cap(range, len(t.left)))
                      ELSE t.left
          mid_range == range_shift_left(range, len(t.left))
          new_mid == IF recurses_into(t.mid, mid_range)
                     THEN remove(t.mid, range_cap(mid_range, len(t.mid)))
                     ELSE t.mid
          right_range == range_shift_left(range, len(t.left) + len(t.mid))
          new_right == IF recurses_into(t.right, right_range)
                       THEN remove(t.right, range_cap(right_range, len(t.right)))
                       ELSE t.right
      IN  IF new_left = Panic \/ new_mid = Panic \/ new_right = Panic THEN Panic
          ELSE LET new_size == len(new_left) + len(new_mid) + len(new_right)
               IN  IF ~(t.size >= new_size) THEN Panic
                   ELSE IF t.size - range_len(range_cap(range, t.size)) # new_size
                        THEN Panic
                   ELSE Internal(new_left, new_mid, new_right, new_size)

\* The inputs of the repository's exhaustive tests: a fixed text, and the data
\* inserted is a prefix of another fixed text. insert and remove never read a
\* byte value, so distinct bytes tell every position apart.
Initial(n) == [i \in 1..n |-> i]
Data(n) == [i \in 1..n |-> 10 + i]

\* an edit that overwrites the root it was called on
new_root_in_place(rs, on, t) == [rs EXCEPT ![on] = t]

\* The root an edit returns is a new Arc; the root it was called on stays as it is.
new_root(rs, on, t) == Append(rs, t)

\* what a holder of root t reads from it
observed(t) == [bytes |-> collect_bytes(t), len |-> len(t)]

NoOp == [op |-> "none"]

TreeIdle == /\ roots = <<>>
            /\ contents = <<>>
            /\ last = NoOp

InitTree ==
    /\ \E n \in 0..MaxInit :
          /\ roots = <<from_slice(Initial(n))>>
          /\ contents = <<observed(from_slice(Initial(n)))>>
    /\ last = NoOp

\* a panic ends the run: nothing is called afterwards
TreePanicked == last.op # "none" /\ last.panicked

\* t.insert(index, data) on the newest root; index may be one past len()
Insert ==
    \E on \in {Len(roots)}, k \in 0..MaxData :
      \E index \in 0..(len(roots[on]) + 1) :
        LET t == insert(roots[on], index, Data(k))
        IN  /\ ~TreePanicked
            /\ Len(roots) <= MaxEdits
            /\ last' = [op |-> "insert", on |-> on, index |-> index,
                        data |-> Data(k), panicked |-> (t = Panic)]
            /\ IF t = Panic
               THEN UNCHANGED <<roots, contents>>
               ELSE /\ roots' = new_root(roots, on, t)
                    /\ contents' = Append(contents, observed(t))
            /\ UNCHANGED <<chunkVars, memVars, uiVars, logVars>>

\* t.remove(a..b) with a <= b on the newest root; b may be one past len()
Remove ==
    \E on \in {Len(roots)} :
      \E a \in 0..(len(roots[on]) + 1) :
        \E b \in a..(len(roots[on]) + 1) :
          LET t == remove(roots[on], Range(a, b))
          IN  /\ ~TreePanicked
              /\ Len(roots) <= MaxEdits
              /\ last' = [op |-> "remove", on |-> on, range |-> Range(a, b),
                          panicked |-> (t = Panic)]
              /\ IF t = Panic
                 THEN UNCHANGED <<roots, contents>>
                 ELSE /\ roots' = new_root(roots, on, t)
                      /\ contents' = Append(contents, observed(t))
              /\ UNCHANGED <<chunkVars, memVars, uiVars, logVars>>

\* t.remove(a..b) with a > b on the newest root: a Range<usize> whose start is
\* past its end is a value any caller can build, and is_empty() holds for it
RemoveReversed ==
    \E on \in {Len(roots)} :
      \E a \in 1..(len(roots[on]) + 1) :
        \E b \in 0..(a - 1) :
          LET t == remove(roots[on], Range(a, b))
          IN  /\ ~TreePanicked
              /\ Len(roots) <= MaxEdits
              /\ last' = [op |-> "remove", on |-> on, range |-> Range(a, b),
                          panicked |-> (t = Panic)]
              /\ IF t = Panic
                 THEN UNCHANGED <<roots, contents>>
                 ELSE /\ roots' = new_root(roots, on, t)
                      /\ contents' = Append(contents, observed(t))
              /\ UNCHANGED <<chunkVars, memVars, uiVars, logVars>>


(***************************************************************************)
(*                chunked_search.rs : OverlappingChunks                    *)
(***************************************************************************)

\* Bounds of the iterator model
MaxSrc     == 4    \* longest source
MaxStart   == 1    \* largest start position
MaxChunk   == 2    \* largest chunk_size
MaxOverlap == 2    \* largest overlap
MaxCalls   == 6    \* calls of next() followed

SrcBytes == {1, 2}

RECURSIVE SeqsOfLen(_, _)
SeqsOfLen(S, n) ==
    IF n = 0 THEN {<<>>}
    ELSE {Append(s, x) : s \in SeqsOfLen(S, n - 1), x \in S}

SeqsUpTo(S, n) == UNION {SeqsOfLen(S, k) : k \in 0..n}

\* ByteIterator::next of the virtual buffer: the byte at the cursor, or None at
\* the end of the sequence. [byte, iter] is the byte and the advanced cursor.
iter_next(src, it) ==
    IF it < Len(src)
    THEN [some |-> TRUE, byte |-> src[it + 1], iter |-> it + 1]
    ELSE [some |-> FALSE, byte |-> 0, iter |-> it]

\* a fill loop that stops at the target length only, not at end
RECURSIVE fill_loop_ignores_end(_, _, _, _)
fill_loop_ignores_end(st, target, e, src) ==
    IF Len(st.buffer) < target
    THEN LET nx == iter_next(src, st.iter)
         IN  IF nx.some
             THEN fill_loop_ignores_end([buffer |-> Append(st.buffer, nx.byte),
                                         current_read_pos |-> st.current_read_pos + 1,
                                         iter |-> nx.iter],
                                        target, e, src)
             ELSE st
    ELSE st

\* The loop of fill_next_chunk, shared by both branches:
\*   while buffer.len() < target && current_read_pos < end {
\*       if let Some(byte) = iter.next() { push; current_read_pos += 1 } else { break } }
\* st is [buffer, current_read_pos, iter].
RECURSIVE fill_loop(_, _, _, _)
fill_loop(st, target, e, src) ==
    IF Len(st.buffer) < target /\ st.current_read_pos < e
    THEN LET nx == iter_next(src, st.iter)
         IN  IF nx.some
             THEN fill_loop([buffer |-> Append(st.buffer, nx.byte),
                             current_read_pos |-> st.current_read_pos + 1,
                             iter |-> nx.iter],
                            target, e, src)
             ELSE st
    ELSE st

\* a drain that keeps nothing of the previous window
drained_all(buf, pos, ov) ==
    [buffer |-> <<>>, buffer_start_pos |-> pos + Len(buf)]

\* a drain that forgets to advance buffer_start_pos
drained_pos_kept(buf, pos, ov) ==
    IF Len(buf) > ov
    THEN [buffer |-> Drop(buf, Len(buf) - ov), buffer_start_pos |-> pos]
    ELSE [buffer |-> buf, buffer_start_pos |-> pos]

\* "Keep overlap bytes at the end": the buffer and buffer_start_pos after
\*   if buffer.len() > overlap { drain(0..drain_amount); buffer_start_pos += drain_amount }
drained(buf, pos, ov) ==
    IF Len(buf) > ov
    THEN LET drain_amount == Len(buf) - ov
         IN  [buffer |-> Drop(buf, drain_amount), buffer_start_pos |-> pos + drain_amount]
    ELSE [buffer |-> buf, buffer_start_pos |-> pos]

\* target length of a window after the first
target_len(ov, cs) == ov + cs

\* fill_next_chunk: the new [buffer, buffer_start_pos, current_read_pos, iter] and
\* the boolean it returns (first_chunk is cleared by the caller of this operator)
fill_next_chunk ==
    IF first_chunk
    THEN LET st == fill_loop([buffer |-> buffer, current_read_pos |-> current_read_pos,
                              iter |-> iter], chunk_size, end, source)
         IN  [buffer |-> st.buffer, buffer_start_pos |-> buffer_start_pos,
              current_read_pos |-> st.current_read_pos, iter |-> st.iter,
              ret |-> (st.buffer # <<>>)]
    ELSE IF current_read_pos >= end
    THEN [buffer |-> buffer, buffer_start_pos |-> buffer_start_pos,
          current_read_pos |-> current_read_pos, iter |-> iter, ret |-> FALSE]
    ELSE LET kept == drained(buffer, buffer_start_pos, overlap)
             before_len == Len(kept.buffer)
             st == fill_loop([buffer |-> kept.buffer, current_read_pos |-> current_read_pos,
                              iter |-> iter], target_len(overlap, chunk_size), end, source)
         IN  [buffer |-> st.buffer, buffer_start_pos |-> kept.buffer_start_pos,
              current_read_pos |-> st.current_read_pos, iter |-> st.iter,
              ret |-> (Len(st.buffer) > before_len)]

\* a valid_start that ignores is_first
valid_start_always_overlap(is_first, ov, buf) == Min(ov, Len(buf))

\* valid_start of the window next() yields
valid_start_of(is_first, ov, buf) == IF is_first THEN 0 ELSE Min(ov, Len(buf))

ChunksIdle ==
    /\ source = <<>> /\ iter = 0 /\ buffer = <<>>
    /\ buffer_start_pos = 0 /\ current_read_pos = 0 /\ end = 0
    /\ chunk_size = 0 /\ overlap = 0 /\ first_chunk = TRUE
    /\ start = 0 /\ windows = <<>> /\ returned = <<>>

\* OverlappingChunks::new(iter, start, end, chunk_size, overlap) with the cursor
\* positioned at start
InitChunks ==
    /\ source \in SeqsUpTo(SrcBytes, MaxSrc)
    /\ start \in 0..MaxStart
    /\ end \in 0..(MaxSrc + 1)
    /\ chunk_size \in 0..MaxChunk
    /\ overlap \in 0..MaxOverlap
    /\ iter = start
    /\ buffer = <<>>
    /\ buffer_start_pos = start
    /\ current_read_pos = start
    /\ first_chunk = TRUE
    /\ windows = <<>>
    /\ returned = <<>>

\* One call of Iterator::next
NextChunk ==
    LET is_first == (buffer_start_pos = current_read_pos)
        f == fill_next_chunk
    IN  /\ Len(returned) < MaxCalls
        /\ first_chunk' = FALSE
        /\ buffer' = f.buffer
        /\ buffer_start_pos' = f.buffer_start_pos
        /\ current_read_pos' = f.current_read_pos
        /\ iter' = f.iter
        /\ IF f.ret
           THEN /\ windows' = Append(windows,
                        [buffer |-> f.buffer,
                         absolute_pos |-> f.buffer_start_pos,
                         valid_start |-> valid_start_of(is_first, overlap, f.buffer)])
                /\ returned' = Append(returned, "Some")
           ELSE /\ windows' = windows
                /\ returned' = Append(returned, "None")
        /\ UNCHANGED <<source, end, chunk_size, overlap, start>>
        /\ UNCHANGED <<treeVars, memVars, uiVars, logVars>>


(***************************************************************************)
(*              memstore.rs : Memstore<L> over MockLoadStore               *)
(***************************************************************************)

\* Bound of the cache model
MaxOps == 4    \* operations followed

\* the offsets and chunk sizes of the indices used: two aligned offsets, and two
\* sizes so that two indices can share an offset
Offsets == {0, 4}
Sizes   == {2, 4}
\* the bytes a caller writes into a cached chunk
MemBytes == {7, 8}

ChunkIndex(offset, size) == [offset |-> offset, chunk_size |-> size]
Indices == {ChunkIndex(o, z) : o \in Offsets, z \in Sizes}

Loaded(data, need_store) == [kind |-> "Loaded", data |-> data, need_store |-> need_store]
Empty == [kind |-> "Empty"]

\* Option<Vec<u8>>
None == [some |-> FALSE]
Some(v) == [some |-> TRUE, value |-> v]

\* the result of a call that panicked
Unwound == [kind |-> "panic"]

\* MockLoadStore::load: data.get(&offset).map(|data| data[..size].to_vec());
\* the slice is out of range when the stored vector is shorter than size
mock_load(st, offset, size) ==
    IF offset \notin DOMAIN st THEN None
    ELSE IF size > Len(st[offset]) THEN Unwound
    ELSE Some(Take(st[offset], size))

\* MockLoadStore::store: data.insert(offset, data.to_vec())
mock_store(st, offset, data) ==
    [o \in (DOMAIN st) \cup {offset} |-> IF o = offset THEN data ELSE st[o]]

\* a closure that caches loaded data as dirty
chunk_of_load_dirty(r) == IF r.some THEN Loaded(r.value, TRUE) ELSE Empty

\* the closure of get: what a load outcome becomes in the cache
chunk_of_load(r) == IF r.some THEN Loaded(r.value, FALSE) ELSE Empty

\* a key compared by offset alone
index_eq_offset_only(a, b) == a.offset = b.offset

\* #[derive(PartialEq, Eq, Hash)] on ChunkIndex: a key is both fields
index_eq(a, b) == a.offset = b.offset /\ a.chunk_size = b.chunk_size

\* the occupied entries of the map that HashMap::entry(index) finds
occupied(m, index) == {k \in DOMAIN m : index_eq(k, index)}

\* HashMap::insert / or_insert_with_key on a vacant entry
map_insert(m, k, v) == [x \in (DOMAIN m) \cup {k} |-> IF x = k THEN v ELSE m[x]]

\* store_all visits the entries in the HashMap's iteration order, which is
\* unspecified: orders is every order of the cached indices
RECURSIVE Orders(_)
Orders(S) ==
    IF S = {} THEN {<<>>}
    ELSE UNION {{<<x>> \o o : o \in Orders(S \ {x})} : x \in S}

\* store_one that writes back every Loaded entry, whatever its flag
store_one_ignores_flag(st, index) ==
    LET chunk == st.chunks[index]
    IN  IF chunk.kind = "Loaded"
        THEN [chunks |-> [st.chunks EXCEPT ![index].need_store = FALSE],
              store  |-> mock_store(st.store, index.offset, chunk.data),
              stores |-> Append(st.stores, [offset |-> index.offset, data |-> chunk.data])]
        ELSE st

\* store_one that writes back a dirty entry and leaves its flag set
store_one_keeps_flag(st, index) ==
    LET chunk == st.chunks[index]
    IN  IF chunk.kind = "Loaded" /\ chunk.need_store
        THEN [chunks |-> st.chunks,
              store  |-> mock_store(st.store, index.offset, chunk.data),
              stores |-> Append(st.stores, [offset |-> index.offset, data |-> chunk.data])]
        ELSE st

\* store_one that drops the bytes of the entry it wrote back
store_one_evicts(st, index) ==
    LET chunk == st.chunks[index]
    IN  IF chunk.kind = "Loaded" /\ chunk.need_store
        THEN [chunks |-> [st.chunks EXCEPT ![index] = Empty],
              store  |-> mock_store(st.store, index.offset, chunk.data),
              stores |-> Append(st.stores, [offset |-> index.offset, data |-> chunk.data])]
        ELSE st

\* the body of the for loop of store_all for one entry:
\* [chunks, store, stores] after visiting index
store_one(st, index) ==
    LET chunk == st.chunks[index]
    IN  IF chunk.kind = "Loaded" /\ chunk.need_store
        THEN [chunks |-> [st.chunks EXCEPT ![index].need_store = FALSE],
              store  |-> mock_store(st.store, index.offset, chunk.data),
              stores |-> Append(st.stores, [offset |-> index.offset, data |-> chunk.data])]
        ELSE st

RECURSIVE store_loop(_, _)
store_loop(st, order) ==
    IF order = <<>> THEN st
    ELSE store_loop(store_one(st, Head(order)), Tail(order))

\* the vector a backing store holds at an offset before the cache is built
\* (MockLoadStore::with_data)
StoreText(o) == [i \in 1..4 |-> 10 * (o + 1) + i]
\* the content a caller gives a chunk: chunk_size bytes
Filled(size, b) == [i \in 1..size |-> b]

EmptyMap == [x \in {} |-> 0]

MemIdle ==
    /\ chunks = EmptyMap /\ store = EmptyMap
    /\ loads = <<>> /\ stores = <<>> /\ got = NoOp /\ ops = 0

\* Memstore::new(load_store) over a store holding data at any set of offsets
InitMem ==
    /\ chunks = EmptyMap
    /\ \E held \in SUBSET Offsets : store = [o \in held |-> StoreText(o)]
    /\ loads = <<>>
    /\ stores = <<>>
    /\ got = NoOp
    /\ ops = 0

\* a panic ends the run: nothing is called on the Memstore afterwards
Aborted == got.op = "get" /\ got.ret = Unwound

\* memstore.get(&index)
Get ==
    \E index \in Indices :
      /\ ~Aborted
      /\ ops < MaxOps
      /\ ops' = ops + 1
      /\ IF occupied(chunks, index) # {}
         THEN /\ got' = [op |-> "get", index |-> index,
                         ret |-> chunks[CHOOSE k \in occupied(chunks, index) : TRUE],
                         cached |-> TRUE]
              /\ UNCHANGED <<chunks, loads>>
         ELSE LET r == mock_load(store, index.offset, index.chunk_size)
              IN  /\ loads' = Append(loads, [offset |-> index.offset,
                                             size |-> index.chunk_size])
                  /\ IF r = Unwound
                     THEN /\ got' = [op |-> "get", index |-> index, ret |-> Unwound,
                                     cached |-> FALSE]
                          /\ UNCHANGED chunks
                     ELSE /\ chunks' = map_insert(chunks, index, chunk_of_load(r))
                          /\ got' = [op |-> "get", index |-> index,
                                     ret |-> chunk_of_load(r), cached |-> FALSE]
      /\ UNCHANGED <<store, stores>>
      /\ UNCHANGED <<treeVars, chunkVars, uiVars, logVars>>

\* memstore.store_all()
StoreAll ==
    \E order \in Orders(DOMAIN chunks) :
      LET st == store_loop([chunks |-> chunks, store |-> store, stores |-> <<>>], order)
      IN  /\ ~Aborted
          /\ ops < MaxOps
          /\ ops' = ops + 1
          /\ chunks' = st.chunks
          /\ store' = st.store
          /\ stores' = st.stores
          /\ got' = [op |-> "store_all", prev_op |-> got.op, prev_stores |-> stores]
          /\ UNCHANGED loads
          /\ UNCHANGED <<treeVars, chunkVars, uiVars, logVars>>

\* The owner of the cache changes a chunk in place and marks it dirty, as the
\* module's test does: memstore.chunks.insert(index, Loaded { data, need_store: true })
Modify ==
    \E index \in Indices, b \in MemBytes :
      /\ ~Aborted
      /\ ops < MaxOps
      /\ ops' = ops + 1
      /\ chunks' = map_insert(chunks, index, Loaded(Filled(index.chunk_size, b), TRUE))
      /\ got' = [op |-> "modify", index |-> index]
      /\ UNCHANGED <<store, loads, stores>>
      /\ UNCHANGED <<treeVars, chunkVars, uiVars, logVars>>

(***************************************************************************)
(*              chunk_tree.rs : from_slice and new at any width            *)
(***************************************************************************)

\* Bounds of the construction model
MaxWidth == 3    \* largest leaf width N a tree is built with
MaxSlice == 5    \* longest slice handed to from_slice

\* what a holder reads from the outcome of a construction: nothing when the
\* call did not return
built(t) == IF is_tree(t) THEN <<observed(t)>> ELSE <<>>

\* a caller picks a leaf width (any usize, 0 included) and a slice
InitBuild ==
    /\ roots = <<>>
    /\ contents = <<>>
    /\ \E w \in 0..MaxWidth, S \in SeqsUpTo(SrcBytes, MaxSlice) :
          last = [op |-> "input", width |-> w, data |-> S]

\* ChunkTree::<width>::from_slice(data)
FromSlice ==
    LET t == from_slice_n(last.width, last.data)
    IN  /\ last.op = "input"
        /\ roots' = <<t>>
        /\ contents' = built(t)
        /\ last' = [op |-> "from_slice", width |-> last.width, data |-> last.data]
        /\ UNCHANGED <<chunkVars, memVars, uiVars, logVars>>

\* ChunkTree::<width>::new()
New ==
    LET t == new_n(last.width)
    IN  /\ last.op = "input"
        /\ roots' = <<t>>
        /\ contents' = built(t)
        /\ last' = [op |-> "new", width |-> last.width]
        /\ UNCHANGED <<chunkVars, memVars, uiVars, logVars>>

(***************************************************************************)
(*          ui/suggestions.rs : the scroll window of the popup             *)
(***************************************************************************)

\* Bounds of the popup model
MaxSuggestions == 5
MaxVisible == 6

\* how the program was built: overflow checks on (debug) or off (release)
Builds == {"debug", "release"}

\* selected >= suggestions.len() - visible_count / 2 in usize. When the
\* subtraction underflows a debug build panics before comparing, and a release
\* build compares with the wrapped value 2^64 - (half - n), which no index
\* reaches.
near_bottom(selected, n, half) ==
    IF n >= half THEN selected >= n - half ELSE FALSE

\* the start of the window that centres on the selection, one page too low
centered_start_full_page(selected, visible_count) ==
    saturating_sub(selected, visible_count)

\* selected.saturating_sub(visible_count / 2)
centered_start(selected, visible_count) ==
    saturating_sub(selected, visible_count \div 2)

\* let start_idx = if let Some(selected) = prompt.selected_suggestion { .. } else { 0 }
start_idx_of(sel, n, visible_count) ==
    IF sel.some
    THEN IF sel.value < visible_count \div 2 THEN 0
         ELSE IF near_bottom(sel.value, n, visible_count \div 2)
              THEN saturating_sub(n, visible_count)
         ELSE centered_start(sel.value, visible_count)
    ELSE 0

\* the subtraction suggestions.len() - visible_count / 2 is evaluated and underflows
underflows(sel, n, visible_count) ==
    /\ sel.some
    /\ ~(sel.value < visible_count \div 2)
    /\ n < visible_count \div 2

\* render, as far as the scroll window goes: the early return on an empty
\* list, the panic of the subtraction in a debug build, start_idx, end_idx
\* and the slice suggestions[start_idx..end_idx]
render(p, build) ==
    IF p.len = 0 THEN [kind |-> "empty"]
    ELSE IF underflows(p.selected_suggestion, p.len, p.visible_count) /\ build = "debug"
    THEN [kind |-> "panic", at |-> "subtract"]
    ELSE LET start_idx == start_idx_of(p.selected_suggestion, p.len, p.visible_count)
             end_idx == Min(start_idx + p.visible_count, p.len)
         IN  IF start_idx > end_idx THEN [kind |-> "panic", at |-> "slice"]
             ELSE [kind |-> "drawn", start_idx |-> start_idx, end_idx |-> end_idx,
                   wrapped |-> underflows(p.selected_suggestion, p.len, p.visible_count)]

NotRendered == [kind |-> "none"]

UiIdle == prompt = NoOp /\ scroll = NotRendered

\* a prompt with any number of suggestions, any selection (none, or an index
\* that may lie past the list) and a popup area of any inner height
InitUi ==
    /\ \E n \in 0..MaxSuggestions, v \in 0..MaxVisible,
          sel \in {None} \cup {Some(i) : i \in 0..MaxSuggestions} :
          prompt = [len |-> n, visible_count |-> v, selected_suggestion |-> sel]
    /\ scroll = NotRendered

\* SuggestionsRenderer::render(frame, area, prompt, theme)
Render ==
    \E build \in Builds :
      /\ scroll = NotRendered
      /\ scroll' = render(prompt, build)
      /\ UNCHANGED prompt
      /\ UNCHANGED <<treeVars, chunkVars, memVars, logVars>>

(***************************************************************************)
(*        services/warning_log.rs : WarningLogLayer::on_event              *)
(***************************************************************************)

\* Bound of the layer model: the number of tracing events
MaxEvents == 2

\* the threads that emit tracing events; on_event takes &self and runs on the
\* thread of the event
Threads == {1, 2}

Levels == {"ERROR", "WARN", "INFO", "DEBUG", "TRACE"}

\* the order of tracing::Level: a more verbose level is greater
verbosity(level) ==
    CASE level = "ERROR" -> 1
      [] level = "WARN"  -> 2
      [] level = "INFO"  -> 3
      [] level = "DEBUG" -> 4
      [] level = "TRACE" -> 5

\* a filter that lets ERROR through only
filtered_out_warn_too(level) == verbosity(level) >= verbosity("WARN")

\* if level > Level::WARN { return; }
filtered_out(level) == verbosity(level) > verbosity("WARN")

Free == [pc |-> "idle"]

\* the events received, the write attempts and the send calls so far
events_in(l) == {i \in 1..Len(l) : l[i].what = "event"}
writes_in(l) == {i \in 1..Len(l) : l[i].what = "write"}
sends_in(l)  == {i \in 1..Len(l) : l[i].what = "send"}

LogIdle ==
    /\ handling = [t \in Threads |-> Free]
    /\ log = <<>>
    /\ receiver = FALSE
    /\ channel = 0

\* create_with_path: the file is created, the channel is empty and the handle
\* holds the receiver
InitLog ==
    /\ handling = [t \in Threads |-> Free]
    /\ log = <<>>
    /\ receiver = TRUE
    /\ channel = 0

\* on_event is entered on thread t with an event of some level: the level test,
\* then the formatting of the line
OnEvent(t) ==
    \E level \in Levels :
      LET id == Cardinality(events_in(log)) + 1
      IN  /\ handling[t] = Free
          /\ id <= MaxEvents
          /\ log' = Append(log, [what |-> "event", id |-> id, level |-> level])
          /\ handling' = IF filtered_out(level) THEN handling
                         ELSE [handling EXCEPT ![t] = [pc |-> "write", id |-> id]]
          /\ UNCHANGED <<receiver, channel>>
          /\ UNCHANGED <<treeVars, chunkVars, memVars, uiVars>>

\* if let Ok(mut file) = self.file.lock() { write_all; flush }: one step under
\* the mutex. The results of write_all and flush are dropped, so the write may
\* fail. The lock is never poisoned: the mutex is private to the layer and
\* nothing panics while it is held.
WriteLine(t) ==
    \E ok \in BOOLEAN :
      /\ handling[t].pc = "write"
      /\ log' = Append(log, [what |-> "write", id |-> handling[t].id, ok |-> ok])
      /\ handling' = [handling EXCEPT ![t].pc = "send"]
      /\ UNCHANGED <<receiver, channel>>
      /\ UNCHANGED <<treeVars, chunkVars, memVars, uiVars>>

\* let _ = self.sender.send(()): queued while the receiver exists, an Err that
\* is dropped once it is gone; on_event returns
SendNotification(t) ==
    /\ handling[t].pc = "send"
    /\ log' = Append(log, [what |-> "send", id |-> handling[t].id, ok |-> receiver])
    /\ channel' = IF receiver THEN channel + 1 ELSE channel
    /\ handling' = [handling EXCEPT ![t] = Free]
    /\ UNCHANGED receiver
    /\ UNCHANGED <<treeVars, chunkVars, memVars, uiVars>>

\* the owner of the WarningLogHandle takes one notification from the receiver
Receive ==
    /\ receiver
    /\ channel > 0
    /\ channel' = channel - 1
    /\ UNCHANGED <<handling, log, receiver>>
    /\ UNCHANGED <<treeVars, chunkVars, memVars, uiVars>>

\* the WarningLogHandle is dropped, and with it the receiver and what is queued
DropReceiver ==
    /\ receiver
    /\ receiver' = FALSE
    /\ channel' = 0
    /\ UNCHANGED <<handling, log>>
    /\ UNCHANGED <<treeVars, chunkVars, memVars, uiVars>>

(***************************************************************************)
(*                           Specifications                                *)
(***************************************************************************)

TreeInit   == InitTree /\ ChunksIdle /\ MemIdle /\ UiIdle /\ LogIdle
ChunksInit == TreeIdle /\ InitChunks /\ MemIdle /\ UiIdle /\ LogIdle
MemInit    == TreeIdle /\ ChunksIdle /\ InitMem /\ UiIdle /\ LogIdle

NextTree   == Insert \/ Remove
NextChunks == NextChunk
NextMem    == Get \/ StoreAll \/ Modify
\* the tree under every call the bounds checks of insert and remove let through
NextTreeAnyRange == Insert \/ Remove \/ RemoveReversed
BuildInit  == InitBuild /\ ChunksIdle /\ MemIdle /\ UiIdle /\ LogIdle
NextBuild  == FromSlice \/ New

SpecTree   == TreeInit /\ [][NextTree]_vars
SpecChunks == ChunksInit /\ [][NextChunks]_vars
SpecMem    == MemInit /\ [][NextMem]_vars
SpecTreeAnyRange == TreeInit /\ [][NextTreeAnyRange]_vars
SpecBuild  == BuildInit /\ [][NextBuild]_vars

\* Memstore used through its public operations only (new, get, store_all): the
\* field chunks is private, so nothing outside the module marks an entry dirty
NextMemPublic == Get \/ StoreAll
SpecMemPublic == MemInit /\ [][NextMemPublic]_vars

UiInit == TreeIdle /\ ChunksIdle /\ MemIdle /\ InitUi /\ LogIdle
NextUi == Render
SpecUi == UiInit /\ [][NextUi]_vars

LogInit == TreeIdle /\ ChunksIdle /\ MemIdle /\ UiIdle /\ InitLog
NextLog == \/ \E t \in Threads : OnEvent(t)
           \/ \E t \in Threads : WriteLine(t)
           \/ \E t \in Threads : SendNotification(t)
           \/ Receive
           \/ DropReceiver
SpecLog == LogInit /\ [][NextLog]_vars


(***************************************************************************)
(*                     Properties of chunk_tree.rs                         *)
(***************************************************************************)

\* the root the last operation was called on, and the root it returned
LastOn  == roots[last.on]
LastNew == roots[Len(roots)]

\* C1: insert(p, D) on a tree with content S, 0 <= p <= |S|, returns a tree whose
\* collect_bytes() is S[..p] + D + S[p..] and whose len() is |S| + |D|; the
\* content differs from S exactly when D is non-empty.
C1_InsertSplices ==
    (last.op = "insert" /\ last.index <= Len(collect_bytes(LastOn))) =>
        LET S == collect_bytes(LastOn)
            p == last.index
            D == last.data
        IN  /\ ~last.panicked
            /\ Len(roots) = last.on + 1
            /\ collect_bytes(LastNew) = Take(S, p) \o D \o Drop(S, p)
            /\ len(LastNew) = Len(S) + Len(D)
            /\ (collect_bytes(LastNew) # S) <=> (D # <<>>)

\* C1 witness: a non-empty run longer than N was inserted strictly inside a
\* tree that an earlier insert and an earlier remove had already reshaped.
C1_Witness ==
    /\ last.op = "insert" /\ ~last.panicked
    /\ Len(roots) = 3
    /\ LastOn.kind = "Internal"
    /\ Len(last.data) > N
    /\ 0 < last.index /\ last.index < len(LastOn)
    /\ Len(contents[2].bytes) # Len(contents[1].bytes)

\* C2: remove(a..b) with a <= b, a < |S|, b <= |S| returns a tree whose
\* collect_bytes() is S[..a] + S[b..] and whose len() is |S| - (b - a); the
\* content differs from S when a < b and is identical when a = b, also when the
\* range straddles several children of an Internal node.
C2_RemoveSplices ==
    (/\ last.op = "remove"
     /\ last.range.start < Len(collect_bytes(LastOn))
     /\ last.range.end <= Len(collect_bytes(LastOn))) =>
        LET S == collect_bytes(LastOn)
            a == last.range.start
            b == last.range.end
        IN  /\ ~last.panicked
            /\ Len(roots) = last.on + 1
            /\ collect_bytes(LastNew) = Take(S, a) \o Drop(S, b)
            /\ len(LastNew) = Len(S) - (b - a)
            /\ (a < b) => collect_bytes(LastNew) # S
            /\ (a = b) => collect_bytes(LastNew) = S

\* C2 witness: the removed range starts inside left, covers a mid that is itself
\* an Internal node and reaches into right of an Internal root.
C2_Witness ==
    /\ last.op = "remove" /\ ~last.panicked
    /\ LastOn.kind = "Internal"
    /\ LastOn.mid.kind = "Internal"
    /\ last.range.start < len(LastOn.left)
    /\ last.range.end > len(LastOn.left) + len(LastOn.mid)

matches_at(buf, pat, pos) ==
    /\ pos + Len(pat) <= Len(buf)
    /\ SubSeq(buf, pos + 1, pos + Len(pat)) = pat

accepted(w, pat) ==
    {w.absolute_pos + pos : pos \in
        {q \in 0..Len(w.buffer) : /\ matches_at(w.buffer, pat, q)
                                 /\ q + Len(pat) > w.valid_start}}

\* the scanned range: source[start..end], cut at the end of the source
RangeEnd == Min(end, Len(source))

\* the true offsets of the occurrences of pat inside the scanned range
occurrences(pat) ==
    {m \in 0..Len(source) : /\ start <= m
                            /\ m + Len(pat) <= RangeEnd
                            /\ matches_at(source, pat, m)}

\* the windows that accept an occurrence at offset m
accepting(pat, m) == {i \in 1..Len(windows) : m \in accepted(windows[i], pat)}

\* next() has returned None
Finished == returned # <<>> /\ returned[Len(returned)] = "None"

Patterns == SeqsUpTo(SrcBytes, MaxOverlap + 1) \ {<<>>}

\* every occurrence of pat is accepted in one window at most, exactly one once
\* the iterator has ended, and every accepted offset is an occurrence
found_exactly_once(pat) ==
    /\ \A i \in 1..Len(windows) : accepted(windows[i], pat) \subseteq occurrences(pat)
    /\ \A m \in occurrences(pat) :
          /\ Cardinality(accepting(pat, m)) <= 1
          /\ Finished => Cardinality(accepting(pat, m)) = 1

\* C4: with chunk_size >= 1 and overlap = L - 1, a caller that accepts a match
\* only if its local end is > valid_start accepts every occurrence of a pattern
\* of length L in source[start..end] in exactly one window, at
\* absolute_pos + local start = its true offset.
C4_ExactOverlapFindsOnce ==
    chunk_size >= 1 =>
        \A pat \in Patterns : (Len(pat) = overlap + 1) => found_exactly_once(pat)

\* C4 witness: the iterator has ended and an occurrence of a pattern of length
\* overlap + 1 >= 2 that no window but the second holds whole was accepted there.
C4_Witness ==
    /\ chunk_size >= 1 /\ overlap >= 1 /\ Finished /\ Len(windows) >= 2
    /\ \E pat \in Patterns :
          /\ Len(pat) = overlap + 1
          /\ \E m \in occurrences(pat) :
                /\ m < windows[1].absolute_pos + Len(windows[1].buffer)
                /\ m + Len(pat) > windows[1].absolute_pos + Len(windows[1].buffer)
                /\ accepting(pat, m) = {2}

\* C5: with chunk_size >= 1 and any overlap >= L - 1 (also chunk_size < overlap)
\* the same caller accepts every occurrence exactly once.
C5_AnyOverlapFindsOnce ==
    chunk_size >= 1 =>
        \A pat \in Patterns : (Len(pat) <= overlap + 1) => found_exactly_once(pat)

\* C6: every yielded window is buffer == source[absolute_pos .. absolute_pos +
\* buffer.len()] with start <= absolute_pos and absolute_pos + buffer.len() <= end,
\* and in every state buffer_start_pos + buffer.len() == current_read_pos.
C6_WindowIsSourceSlice ==
    /\ buffer_start_pos + Len(buffer) = current_read_pos
    /\ \A i \in 1..Len(windows) :
          LET w == windows[i]
          IN  /\ start <= w.absolute_pos
              /\ w.absolute_pos + Len(w.buffer) <= end
              /\ w.absolute_pos + Len(w.buffer) <= Len(source)
              /\ \A k \in 1..Len(w.buffer) : w.buffer[k] = source[w.absolute_pos + k]

\* C6 witness: a third window was yielded, after two drains, from a cursor that
\* did not start at 0.
C6_Witness ==
    /\ start > 0 /\ Len(windows) >= 3
    /\ windows[3].absolute_pos > windows[2].absolute_pos
    /\ windows[2].absolute_pos > start

\* C7: every window after the first is the trailing overlap bytes of the
\* previous window followed by at least 1 and at most chunk_size new bytes; its
\* absolute_pos is the previous one's plus the bytes dropped; its valid_start is
\* min(overlap, buffer.len()). (A previous window shorter than overlap is read
\* as kept whole.)
C7_WindowIsOverlapPlusChunk ==
    \A i \in 2..Len(windows) :
        LET prev == windows[i - 1]
            w == windows[i]
            kept == Min(overlap, Len(prev.buffer))
            dropped == Len(prev.buffer) - kept
            fresh == Len(w.buffer) - kept
        IN  /\ Len(w.buffer) >= kept
            /\ Take(w.buffer, kept) = Drop(prev.buffer, dropped)
            /\ 1 <= fresh /\ fresh <= chunk_size
            /\ w.absolute_pos = prev.absolute_pos + dropped
            /\ w.valid_start = Min(overlap, Len(w.buffer))

\* the bytes of the range the first call of next() can read
FirstLen == Min(chunk_size, Min(Max(end - start, 0), Max(Len(source) - start, 0)))

\* C8: the first call of next() yields the first n = min(chunk_size, end - start,
\* bytes left from start) bytes of the range at absolute_pos = start with
\* valid_start = 0, and nothing if n = 0. When the whole non-empty range lies in
\* the source and fits in one window (end - start <= chunk_size), that window is
\* source[start..end], it is the only one, and every later call returns None.
C8_FirstWindow ==
    returned # <<>> =>
        /\ IF FirstLen = 0
           THEN returned[1] = "None"
           ELSE /\ returned[1] = "Some"
                /\ windows[1] = [buffer |-> SubSeq(source, start + 1, start + FirstLen),
                                 absolute_pos |-> start,
                                 valid_start |-> 0]
        /\ (start < end /\ end <= Len(source) /\ end - start <= chunk_size) =>
              /\ Len(windows) = 1
              /\ windows[1].buffer = SubSeq(source, start + 1, end)
              /\ \A j \in 2..Len(returned) : returned[j] = "None"

\* C8 witness: a range of two bytes or more that fits in one window was yielded
\* whole by the first call, with a non-zero overlap, and two later calls
\* returned None.
C8_Witness ==
    /\ start > 0 /\ end - start >= 2 /\ end <= Len(source) /\ end - start <= chunk_size
    /\ overlap > 0
    /\ returned = <<"Some", "None", "None">>


(***************************************************************************)
(*                      Properties of memstore.rs                          *)
(***************************************************************************)

\* the load call get makes for an index
load_call(index) == [offset |-> index.offset, size |-> index.chunk_size]

\* how many times load was called for an index
load_count(index) == Cardinality({k \in 1..Len(loads) : loads[k] = load_call(index)})

\* C9: get(index) on an index not yet cached calls load(index.offset,
\* index.chunk_size) once and caches the outcome: Empty if load returned no
\* data, otherwise Loaded with exactly the loaded bytes and need_store = false.
\* (get leaves the backing store as it is, so store is what load read.)
C9_GetLoadsAndCaches ==
    (got.op = "get" /\ ~got.cached /\ got.ret # Unwound) =>
        LET index == got.index
        IN  /\ loads # <<>>
            /\ loads[Len(loads)] = load_call(index)
            /\ load_count(index) = 1
            /\ index \in DOMAIN chunks
            /\ chunks[index] = got.ret
            /\ got.ret = IF index.offset \notin DOMAIN store
                         THEN Empty
                         ELSE Loaded(Take(store[index.offset], index.chunk_size), FALSE)

\* C9 witness: a first get of an index loaded a chunk shorter than the vector
\* the store holds at its offset, while another index was already cached.
C9_Witness ==
    /\ got.op = "get" /\ ~got.cached
    /\ got.ret.kind = "Loaded"
    /\ Len(got.ret.data) < Len(store[got.index.offset])
    /\ Cardinality(DOMAIN chunks) >= 2

\* C10: get is memoized per (offset, chunk_size): load is called at most once
\* for each index; a get of a cached index returns the cached entry and calls
\* no load, whatever the backing store holds by then; a get of an index that is
\* not cached calls load for it, even if an index with the same offset or the
\* same chunk_size is cached.
C10_GetMemoized ==
    /\ [](\A index \in Indices : load_count(index) <= 1)
    /\ [][(got'.op = "get" /\ ops' = ops + 1) =>
            LET index == got'.index
            IN  IF index \in DOMAIN chunks
                THEN /\ got'.ret = chunks[index]
                     /\ chunks' = chunks
                     /\ loads' = loads
                ELSE loads' = Append(loads, load_call(index))]_vars

\* C10 witness: a get returned a cached clean Loaded entry whose bytes are no
\* longer what the backing store holds at its offset, because an entry of
\* another chunk_size at the same offset was written back in between.
C10_Witness ==
    /\ got.op = "get" /\ got.cached
    /\ got.ret.kind = "Loaded" /\ ~got.ret.need_store
    /\ got.index.offset \in DOMAIN store
    /\ Len(store[got.index.offset]) >= got.index.chunk_size
    /\ Take(store[got.index.offset], got.index.chunk_size) # got.ret.data
    /\ \E other \in DOMAIN chunks :
          other.offset = got.index.offset /\ other.chunk_size # got.index.chunk_size
    /\ load_count(got.index) = 1

\* the cached Loaded entries whose need_store flag is set
dirty(m) == {i \in DOMAIN m : m[i].kind = "Loaded" /\ m[i].need_store}
\* the store call that writes back entry i of the cache m
store_call(m, i) == [offset |-> i.offset, data |-> m[i].data]
\* a step that is one call of store_all
StoreAllStep == got'.op = "store_all" /\ ops' = ops + 1
\* a step that is one call of get
GetStep == got'.op = "get" /\ ops' = ops + 1

\* C11: store_all calls store(offset, data) exactly once for every cached
\* Loaded entry whose need_store flag is set, with that entry's offset and its
\* current data, and clears the flag; it makes no other store call, and after
\* store_all returns no cached entry has need_store = true.
C11_StoreAllWritesDirty ==
    /\ [](got.op = "store_all" => dirty(chunks) = {})
    /\ [][StoreAllStep =>
            /\ Len(stores') = Cardinality(dirty(chunks))
            /\ \A i \in dirty(chunks) :
                  /\ Cardinality({k \in 1..Len(stores') :
                                     stores'[k] = store_call(chunks, i)}) = 1
                  /\ chunks'[i] = Loaded(chunks[i].data, FALSE)
                  /\ i.offset \in DOMAIN store'
                  /\ \E j \in dirty(chunks) :
                        j.offset = i.offset /\ store'[i.offset] = chunks[j].data]_vars

\* C11 witness: one store_all wrote back two dirty entries that share an
\* offset; the backing store holds the bytes of the one visited last.
C11_Witness ==
    /\ got.op = "store_all"
    /\ Len(stores) = 2
    /\ stores[1].offset = stores[2].offset
    /\ store[stores[2].offset] = stores[2].data

\* C12: store_all is idempotent: a second store_all that follows a store_all
\* with nothing in between makes no store call and leaves the cache and the
\* backing store as the first left them.
C12_StoreAllIdempotent ==
    [][(got.op = "store_all" /\ StoreAllStep) =>
          /\ stores' = <<>>
          /\ chunks' = chunks
          /\ store' = store
          /\ loads' = loads]_vars

\* C12 witness: a store_all that made no call came right after a store_all
\* that wrote entries back.
C12_Witness ==
    /\ got.op = "store_all"
    /\ got.prev_op = "store_all"
    /\ got.prev_stores # <<>>
    /\ stores = <<>>

\* C13: store_all makes no store call for an Empty entry or a clean Loaded
\* entry (the backing store changes at the offsets of dirty entries only),
\* calls no load, changes no entry's variant or data bytes and adds or removes
\* no cached index; get calls no store and changes no entry that is cached.
C13_Frame ==
    /\ [][StoreAllStep =>
            /\ \A k \in 1..Len(stores') :
                  \E i \in dirty(chunks) : stores'[k] = store_call(chunks, i)
            /\ \A o \in (DOMAIN store) \cup (DOMAIN store') :
                  (\A i \in dirty(chunks) : i.offset # o) =>
                      /\ o \in DOMAIN store /\ o \in DOMAIN store'
                      /\ store'[o] = store[o]
            /\ loads' = loads
            /\ DOMAIN chunks' = DOMAIN chunks
            /\ \A i \in DOMAIN chunks :
                  /\ chunks'[i].kind = chunks[i].kind
                  /\ chunks[i].kind = "Loaded" => chunks'[i].data = chunks[i].data
                  /\ i \notin dirty(chunks) => chunks'[i] = chunks[i]]_vars
    /\ [][GetStep =>
            /\ store' = store
            /\ stores' = stores
            /\ \A i \in DOMAIN chunks :
                  i \in DOMAIN chunks' /\ chunks'[i] = chunks[i]]_vars

\* C13 witness: a store_all made one store call while the cache also held an
\* Empty entry and a Loaded entry it did not write back.
C13_Witness ==
    /\ got.op = "store_all"
    /\ Len(stores) = 1
    /\ \E i \in DOMAIN chunks : chunks[i] = Empty
    /\ \E j \in DOMAIN chunks :
          /\ chunks[j].kind = "Loaded"
          /\ store_call(chunks, j) # stores[1]
          /\ store[j.offset] # chunks[j].data

\* C14: insert(index, data) panics if and only if index > len(), on every tree
\* reached by in-bounds edits, whether its root is a Leaf or an Internal node;
\* for every index <= len() the call returns a tree: no level of the
\* recursion fails.
C14_InsertPanicsIffOutOfBounds ==
    last.op = "insert" => (last.panicked <=> last.index > len(LastOn))

\* C14 witness: an insert one past the end of an edited tree with an Internal
\* root panicked.
C14_Witness ==
    /\ last.op = "insert" /\ last.panicked
    /\ Len(roots) >= 2
    /\ LastOn.kind = "Internal"
    /\ last.index = len(LastOn) + 1

\* the condition under which the head of remove lets a range through
remove_accepts(t, range) ==
    \/ len(t) = 0 /\ range_is_empty(range)
    \/ range.start < len(t) /\ range.end <= len(t)

\* C15: remove(range) panics exactly when range.start >= len() or
\* range.end > len(), except that on a tree of length 0 an empty range succeeds
\* and yields an empty leaf; every range with start <= end that passes this
\* check returns a tree: no recursive call on a child fails.
C15_RemovePanicsIffRejected ==
    last.op = "remove" =>
        /\ last.panicked <=> ~remove_accepts(LastOn, last.range)
        /\ (len(LastOn) = 0 /\ range_is_empty(last.range)) => LastNew = Leaf(<<>>)

\* every Internal node of t caches the sum of its children's lengths
RECURSIVE size_invariant(_)
size_invariant(t) ==
    \/ t.kind = "Leaf"
    \/ /\ t.size = len(t.left) + len(t.mid) + len(t.right)
       /\ size_invariant(t.left)
       /\ size_invariant(t.mid)
       /\ size_invariant(t.right)

\* C16: size invariant: in every tree produced by from_slice, new, insert and
\* remove calls that return, for every index and every range the bounds
\* checks accept, every Internal node's cached size equals left.len() +
\* mid.len() + right.len(); so len() is the number of bytes collect_bytes()
\* returns, and is_empty() holds exactly when that number is 0.
C16_SizeInvariant ==
    \A i \in 1..Len(roots) :
        /\ size_invariant(roots[i])
        /\ len(roots[i]) = Len(collect_bytes(roots[i]))
        /\ is_empty(roots[i]) <=> (Len(collect_bytes(roots[i])) = 0)

\* the longest leaf of t
RECURSIVE max_leaf(_)
max_leaf(t) ==
    IF t.kind = "Leaf" THEN Len(t.data)
    ELSE Max(max_leaf(t.left), Max(max_leaf(t.mid), max_leaf(t.right)))

\* every Internal node of t has an empty leaf as its mid child
RECURSIVE mids_empty(_)
mids_empty(t) ==
    \/ t.kind = "Leaf"
    \/ /\ t.mid = Leaf(<<>>)
       /\ mids_empty(t.left)
       /\ mids_empty(t.right)

\* C17: for every byte sequence S and leaf width N >= 1, from_slice(S) returns
\* a tree with collect_bytes() = S and len() = |S| in which every leaf holds at
\* most N bytes and every Internal node has an empty mid leaf and the trees
\* from_slice builds for S[..|S|/2] and S[|S|/2..] as left and right; new()
\* is from_slice of the empty sequence: is_empty() holds and len() is 0.
C17_FromSlice ==
    /\ (last.op = "from_slice" /\ last.width >= 1) =>
          LET t == roots[1]
              S == last.data
              h == Len(S) \div 2
          IN  /\ collect_bytes(t) = S
              /\ len(t) = Len(S)
              /\ max_leaf(t) <= last.width
              /\ mids_empty(t)
              /\ size_invariant(t)
              /\ t.kind = "Leaf" <=> Len(S) <= last.width
              /\ t.kind = "Internal" =>
                    /\ t.left = from_slice_n(last.width, Take(S, h))
                    /\ t.right = from_slice_n(last.width, Drop(S, h))
                    /\ collect_bytes(t.left) = Take(S, h)
                    /\ collect_bytes(t.right) = Drop(S, h)
    /\ (last.op = "new" /\ last.width >= 1) =>
          /\ roots[1] = from_slice_n(last.width, <<>>)
          /\ roots[1] = Leaf(<<>>)
          /\ is_empty(roots[1])
          /\ len(roots[1]) = 0

\* C17 witness: from_slice split a slice of odd length over two levels of
\* Internal nodes.
C17_Witness ==
    /\ last.op = "from_slice"
    /\ last.width >= 1
    /\ Len(last.data) % 2 = 1
    /\ roots[1].kind = "Internal"
    /\ roots[1].right.kind = "Internal"
    /\ roots[1].left.kind = "Leaf"

\* t.insert(p, data).remove(p .. p + |data|)
round_trip(t, p, data) ==
    LET t2 == insert(t, p, data)
    IN  IF t2 = Panic THEN Panic ELSE remove(t2, Range(p, p + Len(data)))

\* C18: insert/remove round trip: for every tree t with content S, every p
\* with 0 <= p <= |S| and every non-empty D,
\* t.insert(p, D).remove(p .. p + |D|) returns a tree whose collect_bytes()
\* is S.
C18_RoundTrip ==
    \A p \in 0..Len(collect_bytes(LastNew)), k \in 1..MaxData :
        /\ round_trip(LastNew, p, Data(k)) # Panic
        /\ collect_bytes(round_trip(LastNew, p, Data(k))) = collect_bytes(LastNew)

\* the number of positions of the range start..end
range_width == Max(end - start, 0)
\* the position one past the last byte of a window
window_end(w) == w.absolute_pos + Len(w.buffer)

\* C19: the window sequence is finite and bounded by the range: for every
\* start, end, chunk_size and overlap, repeated next() calls eventually return
\* None; the iterator takes at most max(end - start, 0) bytes from the cursor
\* in total, reads no byte at a position >= end, and yields at most
\* max(end - start, 0) windows, since every window it yields holds at least
\* one byte no earlier window held. In finite form: any max(end - start, 0)
\* + 1 calls of next() include one that returned None.
C19_WindowsBounded ==
    /\ iter = current_read_pos
    /\ iter - start <= range_width
    /\ iter > start => iter <= end
    /\ Len(windows) <= range_width
    /\ \A i \in 1..Len(windows) :
          /\ windows[i].buffer # <<>>
          /\ window_end(windows[i]) <= end
          /\ window_end(windows[i]) <= current_read_pos
          /\ i > 1 => window_end(windows[i]) > window_end(windows[i - 1])
    /\ Len(returned) > range_width =>
          \E i \in 1..Len(returned) : returned[i] = "None"

\* C19 witness: over a range that starts after and ends before the source
\* does, next() yielded as many windows as the range has positions and then
\* returned None, with the cursor stopped at end.
C19_Witness ==
    /\ Len(windows) >= 2
    /\ Len(windows) = range_width
    /\ returned[Len(returned)] = "None"
    /\ end < Len(source)
    /\ start > 0
    /\ iter = end

C21_EmptyRangeAtEndIsNoOp ==
    (/\ last.op = "remove"
     /\ len(LastOn) > 0
     /\ last.range = Range(len(LastOn), len(LastOn))) =>
        /\ ~last.panicked
        /\ collect_bytes(LastNew) = collect_bytes(LastOn)

\* C21 as amended: an empty range at the end position is rejected: on a
\* non-empty tree remove(len()..len()) panics, as every range with
\* start >= len() does; only on the empty tree does remove(0..0) succeed,
\* returning an empty leaf.
C21_EmptyRangeAtEndRejected ==
    (last.op = "remove" /\ last.range = Range(len(LastOn), len(LastOn))) =>
        IF len(LastOn) > 0
        THEN last.panicked /\ Len(roots) = last.on
        ELSE ~last.panicked /\ LastNew = Leaf(<<>>)

\* C21 witness: remove(len()..len()) panicked on a non-empty edited tree with
\* an Internal root.
C21_Witness ==
    /\ last.op = "remove" /\ last.panicked
    /\ Len(roots) >= 2
    /\ LastOn.kind = "Internal"
    /\ len(LastOn) > 0
    /\ last.range = Range(len(LastOn), len(LastOn))

\* every Internal node of t is longer than its left and its right child
RECURSIVE halves_shorter(_)
halves_shorter(t) ==
    \/ t.kind = "Leaf"
    \/ /\ len(t.left) < len(t) /\ len(t.right) < len(t)
       /\ halves_shorter(t.left)
       /\ halves_shorter(t.right)

\* C22 as stated: from_slice has no failure mode: for every slice and every
\* width N the type admits, N = 0 included, from_slice terminates and returns
\* a tree, every recursive call being made on a strictly shorter slice.
C22_FromSliceAlwaysReturns ==
    last.op = "from_slice" => is_tree(roots[1]) /\ halves_shorter(roots[1])

\* C22 as amended: for every width N >= 1 and every slice, and for N = 0 and
\* the empty slice, from_slice terminates and returns a tree, every recursive
\* call being made on a strictly shorter slice; for N = 0 and a non-empty
\* slice it does not return: the recursion reaches a slice of one byte, whose
\* right half is the slice itself.
C22_FromSliceReturnsIffSplittable ==
    last.op = "from_slice" =>
        IF last.width >= 1 \/ last.data = <<>>
        THEN /\ is_tree(roots[1])
             /\ halves_shorter(roots[1])
             /\ collect_bytes(roots[1]) = last.data
        ELSE roots[1] = Overflow

\* C22 witness: from_slice with N = 0 did not return for a slice of several
\* bytes.
C22_Witness ==
    /\ last.op = "from_slice"
    /\ last.width = 0
    /\ Len(last.data) >= 2
    /\ roots[1] = Overflow

\* The caller of the module's doc example: it searches buffer[valid_start..]
\* of a window only and reports absolute_pos + valid_start + pos for a match
\* at offset pos of that part.
reported(w, pat) ==
    {w.absolute_pos + w.valid_start + pos : pos \in
        {q \in 0..Len(w.buffer) :
            /\ w.valid_start + q + Len(pat) <= Len(w.buffer)
            /\ matches_at(Drop(w.buffer, w.valid_start), pat, q)}}

\* the windows in which the doc example's caller reports an occurrence at m
reporting(pat, m) == {i \in 1..Len(windows) : m \in reported(windows[i], pat)}

\* C23: start-in-valid-zone convention of the module documentation: a caller
\* that searches only buffer[valid_start..] of each window and reports
\* absolute_pos + valid_start + pos finds every occurrence of a pattern of
\* length L <= overlap + 1 in the range exactly once, an occurrence that
\* spans a window boundary included. (Stated here for the windows that carry
\* over a full overlap: chunk_size >= 1 and chunk_size >= overlap.)
C23_StartInValidZoneFindsOnce ==
    (chunk_size >= 1 /\ chunk_size >= overlap) =>
        \A pat \in Patterns :
            (Len(pat) <= overlap + 1) =>
                /\ \A i \in 1..Len(windows) :
                      reported(windows[i], pat) \subseteq occurrences(pat)
                /\ \A m \in occurrences(pat) :
                      /\ Cardinality(reporting(pat, m)) <= 1
                      /\ Finished => Cardinality(reporting(pat, m)) = 1

\* n is o with exactly the child that holds index replaced, the other two
\* children being the subtrees of o, and k bytes longer; the same at every
\* Internal node on the path of the insert
RECURSIVE one_child_replaced(_, _, _, _)
one_child_replaced(o, n, index, k) ==
    \/ o.kind = "Leaf"
    \/ /\ n.kind = "Internal"
       /\ n.size = o.size + k
       /\ IF index <= len(o.left)
          THEN /\ n.mid = o.mid /\ n.right = o.right
               /\ n.left # o.left
               /\ len(n.left) = len(o.left) + k
               /\ one_child_replaced(o.left, n.left, index, k)
          ELSE IF index <= len(o.left) + len(o.mid)
          THEN /\ n.left = o.left /\ n.right = o.right
               /\ n.mid # o.mid
               /\ len(n.mid) = len(o.mid) + k
               /\ one_child_replaced(o.mid, n.mid, index - len(o.left), k)
          ELSE /\ n.left = o.left /\ n.mid = o.mid
               /\ n.right # o.right
               /\ len(n.right) = len(o.right) + k
               /\ one_child_replaced(o.right, n.right,
                                     index - len(o.left) - len(o.mid), k)

\* C24: insert on an Internal node replaces exactly one child and shares the
\* other two unchanged: index <= left.len() edits left; otherwise index <=
\* left.len() + mid.len() edits mid at index - left.len(); otherwise right at
\* index - left.len() - mid.len(). The two children not chosen are the
\* identical subtrees of the old node, and the new size is old size + |data|.
C24_InsertReplacesOneChild ==
    (last.op = "insert" /\ ~last.panicked /\ LastOn.kind = "Internal") =>
        one_child_replaced(LastOn, LastNew, last.index, Len(last.data))

\* C24 witness: an insert at the boundary between left and mid of an Internal
\* root (index = left.len(), mid not empty) edited left and shared mid and
\* right.
C24_Witness ==
    /\ last.op = "insert" /\ ~last.panicked
    /\ LastOn.kind = "Internal"
    /\ len(LastOn.mid) > 0
    /\ last.index = len(LastOn.left)
    /\ LastNew.left # LastOn.left
    /\ LastNew.mid = LastOn.mid

\* the children of an Internal node, each with the range shifted to it and
\* with the child the result holds in its place
children_of(o, n, range) ==
    {[old |-> o.left, new |-> n.left, shifted |-> range],
     [old |-> o.mid, new |-> n.mid,
      shifted |-> range_shift_left(range, len(o.left))],
     [old |-> o.right, new |-> n.right,
      shifted |-> range_shift_left(range, len(o.left) + len(o.mid))]}

\* the part of the range that falls inside a child
sub_range(c) == range_cap(c.shifted, len(c.old))

\* the last call was a remove that reached the Internal arm of the match (the
\* tree or the range was not empty) and returned
InternalArmReturned ==
    /\ last.op = "remove" /\ ~last.panicked
    /\ LastOn.kind = "Internal"
    /\ ~(is_empty(LastOn) /\ range_is_empty(last.range))

RECURSIVE remove_events(_, _)
remove_events(t, range) ==
    IF len(t) = 0 /\ range_is_empty(range) THEN {}
    ELSE IF remove_rejects(t, range) THEN {"bounds"}
    ELSE IF t.kind = "Leaf" THEN {}
    ELSE IF range.start > t.size THEN {"defensive"}
    ELSE
      LET left_range == range_cap(range, len(t.left))
          mid_shift == range_shift_left(range, len(t.left))
          mid_range == range_cap(mid_shift, len(t.mid))
          right_shift == range_shift_left(range, len(t.left) + len(t.mid))
          right_range == range_cap(right_shift, len(t.right))
          in_left == recurses_into(t.left, range)
          in_mid == recurses_into(t.mid, mid_shift)
          in_right == recurses_into(t.right, right_shift)
          new_left == IF in_left THEN remove(t.left, left_range) ELSE t.left
          new_mid == IF in_mid THEN remove(t.mid, mid_range) ELSE t.mid
          new_right == IF in_right THEN remove(t.right, right_range) ELSE t.right
          left_events == IF in_left THEN remove_events(t.left, left_range) ELSE {}
          mid_events == IF in_mid THEN remove_events(t.mid, mid_range) ELSE {}
          right_events == IF in_right THEN remove_events(t.right, right_range)
                          ELSE {}
      IN  IF new_left = Panic THEN left_events
          ELSE IF new_mid = Panic THEN left_events \cup mid_events
          ELSE IF new_right = Panic
               THEN left_events \cup mid_events \cup right_events
          ELSE LET new_size == len(new_left) + len(new_mid) + len(new_right)
                   below == left_events \cup mid_events \cup right_events
               IN  IF ~(t.size >= new_size) THEN below \cup {"assert_ge"}
                   ELSE IF t.size - range_len(range_cap(range, t.size)) # new_size
                        THEN below \cup {"assert_eq"}
                   ELSE below

\* C26: the assertions inside remove never fire: for every tree reached by
\* accepted edits and every range that passes the bounds check at the entry
\* of remove, at every Internal node visited new_size <= size and
\* new_size = size - len(range clamped to size) hold, and the branch
\* range.start > size is never taken.
C26_RemoveAssertionsNeverFire ==
    (last.op = "remove" /\ remove_accepts(LastOn, last.range)) =>
        remove_events(LastOn, last.range)
            \cap {"assert_ge", "assert_eq", "defensive"} = {}

\* window w holds the byte at absolute position p
holds(w, p) == w.absolute_pos <= p /\ p < window_end(w)

\* window w holds the byte at absolute position p in buffer[valid_start..]
holds_as_new(w, p) == holds(w, p) /\ p - w.absolute_pos >= w.valid_start

\* the positions of the scanned range
Scanned == {p \in 0..(Len(source) - 1) : start <= p /\ p < end}

\* C27: in every window after the first, every byte at a local offset
\* < valid_start was in the previous yielded window at the same absolute
\* position, and every byte at a local offset >= valid_start was in no earlier
\* window; so each byte of the scanned range lies in buffer[valid_start..] of
\* exactly one window (of one at most while the iterator runs, of exactly one
\* once it has ended). Stated for chunk_size >= 1: with chunk_size = 0 the
\* first call yields nothing.
C27_ValidStartSplitsOldFromNew ==
  chunk_size >= 1 =>
    /\ \A i \in 2..Len(windows) :
          \A p \in 0..(Len(source) - 1) :
              holds(windows[i], p) =>
                  IF p - windows[i].absolute_pos < windows[i].valid_start
                  THEN holds(windows[i - 1], p)
                  ELSE \A j \in 1..(i - 1) : ~holds(windows[j], p)
    /\ \A p \in Scanned :
          LET fresh_in == {i \in 1..Len(windows) : holds_as_new(windows[i], p)}
          IN  /\ Cardinality(fresh_in) <= 1
              /\ Finished => Cardinality(fresh_in) = 1

\* no call of next() returned Some after a call that returned None
fused ==
    \A i \in 1..Len(returned) : \A j \in (i + 1)..Len(returned) :
        returned[i] = "None" => returned[j] = "None"

\* the first-window test next() makes (is_first) and the flag fill_next_chunk
\* tests, as the next call of next() would read them
is_first_agrees == (buffer_start_pos = current_read_pos) <=> first_chunk

\* C28: the iterator is fused: for every start, end, chunk_size (0 included)
\* and overlap, once next() has returned None every later call returns None;
\* and on every call the first-window decision of next()
\* (buffer_start_pos = current_read_pos) agrees with the first_chunk flag that
\* fill_next_chunk uses.
C28_FusedAndFirstAgree == fused /\ is_first_agrees

\* the backing store holds the cached bytes of entry i: load(i.offset,
\* i.chunk_size) would return them
coherent(m, st, i) ==
    m[i].kind = "Loaded" =>
        mock_load(st, i.offset, i.chunk_size) = Some(m[i].data)

\* C29: cache/backing-store coherence after a flush: in the state right after
\* store_all returns, for every cached Loaded entry the backing store holds
\* that entry's data at the entry's offset, whatever the set of cached indices
\* is (indices that share an offset with different chunk_size included) and
\* whatever the order in which store_all visits the entries.
C29_CoherentAfterStoreAll ==
    got.op = "store_all" => \A i \in DOMAIN chunks : coherent(chunks, store, i)

\* C30: remove treats every range that is empty in Rust's sense (start >= end,
\* start > end included) as a content no-op: for a tree with content S and a
\* range with end < start < |S|, remove returns a tree with
\* collect_bytes() = S and len() = |S|.
C30_ReversedRangeIsNoOp ==
    (/\ last.op = "remove"
     /\ last.range.end < last.range.start
     /\ last.range.start < Len(contents[last.on].bytes)) =>
        /\ ~last.panicked
        /\ collect_bytes(LastNew) = contents[last.on].bytes
        /\ len(LastNew) = Len(contents[last.on].bytes)

\* the capacity new reserves for the buffer: Vec::with_capacity(chunk_size + overlap)
capacity == chunk_size + overlap

\* the buffer and every yielded window fit in the reserved capacity
within_capacity ==
    /\ Len(buffer) <= capacity
    /\ \A i \in 1..Len(windows) : Len(windows[i].buffer) <= capacity

\* C31: bounded window memory: in every reachable state of the iterator the
\* internal buffer, and therefore every yielded window, holds at most
\* chunk_size + overlap bytes (the capacity reserved in new), and the first
\* window holds at most chunk_size bytes, whatever the length of the source.
C31_BufferWithinCapacity ==
    /\ within_capacity
    /\ windows # <<>> => Len(windows[1].buffer) <= chunk_size

\* the backing store holds what it held when the Memstore was built
store_untouched == \A o \in DOMAIN store : store[o] = StoreText(o)

\* C32: using only the public operations of Memstore (new, get, store_all), no
\* cached entry ever has need_store = true: get creates every entry clean and
\* nothing public sets the flag, so store_all performs no store call and the
\* backing store is never written.
C32_PublicOpsNeverDirty ==
    /\ dirty(chunks) = {}
    /\ stores = <<>>
    /\ store_untouched

\* C32 witness: store_all has just run over a cache that get filled with a
\* Loaded and an Empty entry, and it stored nothing.
C32_Witness ==
    /\ got.op = "store_all"
    /\ got.prev_op = "get"
    /\ \E i, j \in DOMAIN chunks : chunks[i].kind = "Loaded" /\ chunks[j].kind = "Empty"
    /\ stores = <<>>

\* the selection of the prompt is an index of the list
selection_in_list ==
    /\ prompt.len >= 1 /\ prompt.visible_count >= 1
    /\ prompt.selected_suggestion.some
    /\ prompt.selected_suggestion.value < prompt.len

\* C33: the popup scrolling keeps the selection visible: for every number of
\* suggestions n >= 1, every visible_count >= 1 and every selected index s
\* with 0 <= s < n, start_idx <= s < end_idx <= n and
\* end_idx - start_idx <= visible_count, and n - visible_count / 2 never
\* underflows (neither the panic of a debug build nor the wrapped value of a
\* release build occurs).
C33_SelectionVisible ==
    (scroll # NotRendered /\ selection_in_list) =>
        /\ scroll.kind = "drawn"
        /\ ~scroll.wrapped
        /\ scroll.start_idx <= prompt.selected_suggestion.value
        /\ prompt.selected_suggestion.value < scroll.end_idx
        /\ scroll.end_idx <= prompt.len
        /\ scroll.end_idx - scroll.start_idx <= prompt.visible_count

\* C33 witness: a selection in the middle of a list longer than the popup was
\* centred: the window starts after the first and ends before the last item.
C33_Witness ==
    /\ selection_in_list
    /\ scroll.kind = "drawn"
    /\ scroll.start_idx > 0
    /\ scroll.end_idx < prompt.len
    /\ scroll.start_idx < prompt.selected_suggestion.value
    /\ prompt.visible_count >= 2

\* the positions in the log of the write attempts and of the send calls that
\* event number id caused
writes_of(id) == {j \in writes_in(log) : log[j].id = id}
sends_of(id)  == {j \in sends_in(log) : log[j].id = id}

\* some call of on_event is still handling event number id
in_progress(id) ==
    \E t \in Threads : handling[t] # Free /\ handling[t].id = id

\* the events of level WARN or ERROR received so far
captured == {i \in events_in(log) : log[i].level \in {"WARN", "ERROR"}}

quiescent == \A t \in Threads : handling[t] = Free

\* C34: for any sequence of tracing events, an event of level INFO, DEBUG or
\* TRACE causes no file write and no notification, and every event of level
\* WARN or ERROR causes one line write attempt followed by exactly one send of
\* () on the channel, in that order after the event; so the number of
\* notifications sent equals the number of WARN/ERROR events once every call
\* of on_event has returned, also when a write failed or the receiver has been
\* dropped.
C34_OneWriteThenOneSendPerWarning ==
    /\ \A i \in events_in(log) :
          LET id == log[i].id
          IN  IF log[i].level \in {"INFO", "DEBUG", "TRACE"}
              THEN writes_of(id) = {} /\ sends_of(id) = {}
              ELSE /\ Cardinality(writes_of(id)) <= 1
                   /\ Cardinality(sends_of(id)) <= 1
                   /\ \A w \in writes_of(id) : w > i
                   /\ \A n \in sends_of(id) : \E w \in writes_of(id) : w < n
                   /\ ~in_progress(id) =>
                         /\ Cardinality(writes_of(id)) = 1
                         /\ Cardinality(sends_of(id)) = 1
    /\ Cardinality(sends_in(log)) <= Cardinality(writes_in(log))
    /\ Cardinality(writes_in(log)) <= Cardinality(captured)
    /\ quiescent => Cardinality(sends_in(log)) = Cardinality(captured)

\* C34 witness: every call has returned; an INFO event was ignored, and the
\* write of a WARN/ERROR event failed and its send found the receiver dropped:
\* the event still has its one write attempt and its one send.
C34_Witness ==
    /\ quiescent
    /\ \E i \in events_in(log) : log[i].level = "INFO"
    /\ \E w \in writes_in(log) : ~log[w].ok
    /\ \E n \in sends_in(log) : ~log[n].ok
    /\ Cardinality(captured) = 1
    /\ Cardinality(sends_in(log)) = 1

====
